---- MODULE Spec2Model ----
(***************************************************************************)
(* Model of package orm (src/orm/db.go): the Connection Executor DBStore,  *)
(* the Transaction Executor DBTx and the Tracing Decorator TracedDB,       *)
(* together with the parts of database/sql, context and opentracing they   *)
(* call.                                                                   *)
(***************************************************************************)
EXTENDS Integers, Sequences, FiniteSets

\* ------------------------------------------------------------------ bounds
MaxThreshold == 1    \* SlowLog arguments: -1..MaxThreshold; durations: 0..MaxThreshold+1
MaxClose == 2        \* Close calls made on one DBTx

\* ------------------------------------------------------------------ values
Nil == "nil"
Contexts == {"c1", "c2"}            \* non-nil context.Context values
CtxArgs == Contexts \cup {Nil}
AllTx == {"t1", "t2"}               \* DBTx handles a caller may hold
MainTx == {"t1"}
Durations == 0..(MaxThreshold + 1)
Thresholds == (-1)..MaxThreshold
AppErrors == {"AppError"}           \* non-nil errors a caller passes to SetError
ErrArgs == AppErrors \cup {Nil}
Outcomes == {"ok", "fail"}          \* what the database answers to a call

VARIABLES
  store,      \* the DBStore: DB (embedded *sql.DB handle), debug, slowlog
  sqldb,      \* the *sql.DB the store was built around: "open" or "closed"
  cancelled,  \* cancelled[c]: context c is done (cancelled or past deadline)
  txs,        \* txs[t]: the DBTx held under handle t (NoTx before BeginTx)
  hist,       \* hist[t]: history of txs[t] (doomed, terminal calls issued)
  last        \* the last operation: its inputs, return value and effects

vars == <<store, sqldb, cancelled, txs, hist, last>>

\* ------------------------------------------------------------ return values
Ret(v, e) == [val |-> v, err |-> e, panic |-> FALSE]
NoRet == Ret(Nil, Nil)
Panic == [val |-> Nil, err |-> Nil, panic |-> TRUE]
Failed(r) == r.panic \/ r.err # Nil

NoLog == [debug |-> FALSE, slow |-> FALSE]
NoSpan == [name |-> Nil, events |-> <<>>]

NoTx == [tx |-> "none", debug |-> FALSE, slowlog |-> 0, err |-> Nil, Ctx |-> Nil]
NoHist == [called |-> FALSE, doomed |-> FALSE, issued |-> 0]

NoOp == [op |-> "Init", recv |-> Nil, t |-> Nil, traced |-> FALSE, arg |-> Nil,
         dur |-> 0, ret |-> NoRet, call |-> Nil, term |-> Nil, out |-> Nil,
         log |-> NoLog, span |-> NoSpan]

\* ---------------------------------------------------------------- context
\* select { case <-ctx.Done(): ... default: } on a non-nil context
CtxDone(c) == c # Nil /\ cancelled[c]

\* ctx.Err() of a done context
CtxErr(c) == IF c = "c1" THEN "context.Canceled" ELSE "context.DeadlineExceeded"

\* ------------------------------------------------------------ database/sql
\* (*sql.DB).Query / Exec on the store's handle
SqlDBRun(h, dbstate, o, v) ==
  IF h = Nil THEN Panic
  ELSE IF dbstate = "closed" THEN Ret(Nil, "ErrDBClosed")
  ELSE IF o = "ok" THEN Ret(v, Nil)
  ELSE Ret(Nil, "DriverError")

\* (*sql.Tx).QueryContext / ExecContext with context c (Query / Exec pass
\* context.Background(), which is never done: c = Nil here)
SqlTxRun(txstate, c, dbstate, o, v) ==
  IF CtxDone(c) THEN Ret(Nil, CtxErr(c))
  ELSE IF txstate = "done" THEN Ret(Nil, "ErrTxDone")
  ELSE IF dbstate = "closed" \/ o = "fail" THEN Ret(Nil, "DriverError")
  ELSE Ret(v, Nil)

\* (*sql.Tx).Commit / Rollback: the error returned
SqlTxEnd(txstate, dbstate, o, failure) ==
  IF txstate = "done" THEN "ErrTxDone"
  ELSE IF dbstate = "closed" \/ o = "fail" THEN failure
  ELSE Nil

\* ------------------------------------------------------------------ logging
\* faulty variant: the comparison with the threshold made inclusive
SlowLogged_AtLeast(slowlog, span) == slowlog > 0 /\ span >= slowlog

\* the deferred slow-log closure: installed when slowlog > 0, logs when span > slowlog
SlowLogged(slowlog, span) == slowlog > 0 /\ span > slowlog

LogLines(debug, slowlog, span) ==
  [debug |-> debug, slow |-> SlowLogged(slowlog, span)]

\* ------------------------------------------------------------------ DBStore
DBStoreQuery(s, dbstate, o, dur) ==
  [ret |-> SqlDBRun(s.DB, dbstate, o, "rows"),
   log |-> LogLines(s.debug, s.slowlog, dur),
   call |-> "Query"]

DBStoreExec(s, dbstate, o, dur) ==
  [ret |-> SqlDBRun(s.DB, dbstate, o, "result"),
   log |-> LogLines(s.debug, s.slowlog, dur),
   call |-> "Exec"]

\* faulty variant: the handle dropped whether or not closing failed
DBStoreClose_AlwaysInvalidates(s, dbstate, o) ==
  IF s.DB = Nil THEN [store |-> s, sqldb |-> dbstate, ret |-> Panic]
  ELSE IF dbstate = "closed" THEN
    [store |-> [s EXCEPT !.DB = Nil], sqldb |-> dbstate, ret |-> NoRet]
  ELSE IF o = "fail" THEN
    [store |-> [s EXCEPT !.DB = Nil], sqldb |-> "closed", ret |-> Ret(Nil, "CloseError")]
  ELSE [store |-> [s EXCEPT !.DB = Nil], sqldb |-> "closed", ret |-> NoRet]

\* store.DB.Close(), then store.DB = nil unless it failed
DBStoreClose(s, dbstate, o) ==
  IF s.DB = Nil THEN [store |-> s, sqldb |-> dbstate, ret |-> Panic]
  ELSE IF dbstate = "closed" THEN
    [store |-> [s EXCEPT !.DB = Nil], sqldb |-> dbstate, ret |-> NoRet]
  ELSE IF o = "fail" THEN
    [store |-> s, sqldb |-> "closed", ret |-> Ret(Nil, "CloseError")]
  ELSE [store |-> [s EXCEPT !.DB = Nil], sqldb |-> "closed", ret |-> NoRet]

\* faulty variant: the DBTx literal without the store's settings
DBStoreBeginTx_DefaultSettings(s, dbstate, o, ctx) ==
  IF s.DB = Nil THEN [tx |-> NoTx, ret |-> Panic]
  ELSE IF dbstate = "closed" THEN [tx |-> NoTx, ret |-> Ret(Nil, "ErrDBClosed")]
  ELSE IF o = "fail" THEN [tx |-> NoTx, ret |-> Ret(Nil, "TransactionStartError")]
  ELSE [tx |-> [tx |-> "open", debug |-> FALSE, slowlog |-> 0,
                err |-> Nil, Ctx |-> ctx],
        ret |-> Ret("tx", Nil)]

\* store.Begin(), then the DBTx literal
DBStoreBeginTx(s, dbstate, o, ctx) ==
  IF s.DB = Nil THEN [tx |-> NoTx, ret |-> Panic]
  ELSE IF dbstate = "closed" THEN [tx |-> NoTx, ret |-> Ret(Nil, "ErrDBClosed")]
  ELSE IF o = "fail" THEN [tx |-> NoTx, ret |-> Ret(Nil, "TransactionStartError")]
  ELSE [tx |-> [tx |-> "open", debug |-> s.debug, slowlog |-> s.slowlog,
                err |-> Nil, Ctx |-> ctx],
        ret |-> Ret("tx", Nil)]

\* --------------------------------------------------------------------- DBTx
\* faulty variant: the plain driver call made whatever context is attached
DBTxQuery_AlwaysPlain(tx, dbstate, o, dur) ==
  LET r == SqlTxRun(tx.tx, Nil, dbstate, o, "rows")
  IN [tx |-> [tx EXCEPT !.err = r.err],
      ret |-> r,
      log |-> LogLines(tx.debug, tx.slowlog, dur),
      call |-> "Query"]

\* faulty variant: a failure of the DEBUG line's sink reported as the query's error
DBTxQuery_LogFailure(tx, dbstate, o, dur) ==
  LET r == IF tx.debug THEN Ret(Nil, "LogError")
           ELSE SqlTxRun(tx.tx, tx.Ctx, dbstate, o, "rows")
  IN [tx |-> [tx EXCEPT !.err = r.err],
      ret |-> r,
      log |-> LogLines(tx.debug, tx.slowlog, dur),
      call |-> IF tx.Ctx # Nil THEN "QueryContext" ELSE "Query"]

DBTxQuery(tx, dbstate, o, dur) ==
  LET r == IF tx.Ctx # Nil
             THEN SqlTxRun(tx.tx, tx.Ctx, dbstate, o, "rows")
             ELSE SqlTxRun(tx.tx, Nil, dbstate, o, "rows")
  IN [tx |-> [tx EXCEPT !.err = r.err],
      ret |-> r,
      log |-> LogLines(tx.debug, tx.slowlog, dur),
      call |-> IF tx.Ctx # Nil THEN "QueryContext" ELSE "Query"]

\* faulty variant: an error already recorded kept when a later call succeeds
DBTxExec_Sticky(tx, dbstate, o, dur) ==
  LET r == SqlTxRun(tx.tx, tx.Ctx, dbstate, o, "result")
  IN [tx |-> [tx EXCEPT !.err = IF tx.err # Nil THEN tx.err ELSE r.err],
      ret |-> r,
      log |-> LogLines(tx.debug, tx.slowlog, dur),
      call |-> IF tx.Ctx # Nil THEN "ExecContext" ELSE "Exec"]

DBTxExec(tx, dbstate, o, dur) ==
  LET r == IF tx.Ctx # Nil
             THEN SqlTxRun(tx.tx, tx.Ctx, dbstate, o, "result")
             ELSE SqlTxRun(tx.tx, Nil, dbstate, o, "result")
  IN [tx |-> [tx EXCEPT !.err = r.err],
      ret |-> r,
      log |-> LogLines(tx.debug, tx.slowlog, dur),
      call |-> IF tx.Ctx # Nil THEN "ExecContext" ELSE "Exec"]

DBTxSetError(tx, err) == [tx EXCEPT !.err = err]

\* faulty variant: the context given at BeginTx kept
DBTxSetContext_Ignored(tx, ctx) == tx

DBTxSetContext(tx, ctx) == [tx EXCEPT !.Ctx = ctx]

\* faulty variant: ctx.Err() taken from any attached context, without the select on Done()
DBTxCloseCheck_NoSelect(tx) ==
  IF tx.Ctx # Nil THEN [tx EXCEPT !.err = CtxErr(tx.Ctx)] ELSE tx

\* faulty variant: Close without the check of the context
DBTxCloseCheck_Skipped(tx) == tx

\* faulty variant: the context's error recorded only when no error is recorded yet
DBTxCloseCheck_KeepsPrior(tx) ==
  IF tx.Ctx # Nil /\ CtxDone(tx.Ctx) /\ tx.err = Nil
    THEN [tx EXCEPT !.err = CtxErr(tx.Ctx)] ELSE tx

\* the select on tx.Ctx.Done() at the head of Close
DBTxCloseCheck(tx) ==
  IF tx.Ctx # Nil /\ CtxDone(tx.Ctx) THEN [tx EXCEPT !.err = CtxErr(tx.Ctx)] ELSE tx

\* faulty variant: Close returning the recorded error after rolling back
DBTxCloseEnd_ReturnsRecorded(tx, dbstate, o) ==
  LET term == IF tx.err # Nil THEN "rollback" ELSE "commit"
      out == SqlTxEnd(tx.tx, dbstate, o,
                      IF term = "rollback" THEN "RollbackError" ELSE "CommitError")
  IN [tx |-> [tx EXCEPT !.tx = "done"],
      ret |-> IF term = "rollback" THEN Ret(Nil, tx.err) ELSE Ret(Nil, out),
      term |-> term, out |-> out]

\* the terminal call Close makes on tx.tx, and the value it returns
DBTxCloseEnd(tx, dbstate, o) ==
  LET term == IF tx.err # Nil THEN "rollback" ELSE "commit"
      out == SqlTxEnd(tx.tx, dbstate, o,
                      IF term = "rollback" THEN "RollbackError" ELSE "CommitError")
  IN [tx |-> [tx EXCEPT !.tx = "done"], ret |-> Ret(Nil, out),
      term |-> term, out |-> out]

DBTxClose(tx, dbstate, o) == DBTxCloseEnd(DBTxCloseCheck(tx), dbstate, o)

\* ----------------------------------------------------------------- TracedDB
logErrorToSpan(events) == events \o <<"tag:error", "log:error">>

\* faulty variant: Finish called on the success path only, not deferred
TracedSpan_FinishOnSuccess(name, ret) ==
  LET started == <<"start", "log:sql.query">>
  IN [name |-> name,
      events |-> IF ~ret.panic /\ ret.err # Nil
                   THEN logErrorToSpan(started)
                   ELSE Append(started, "finish")]

\* StartSpanFromContext, LogFields, defer Finish around the forwarded call
TracedSpan(name, ret) ==
  LET started == <<"start", "log:sql.query">>
      body == IF ~ret.panic /\ ret.err # Nil THEN logErrorToSpan(started) ELSE started
  IN [name |-> name, events |-> Append(body, "finish")]

TracedDBQuery(inner) ==
  [ret |-> inner.ret, span |-> TracedSpan("DB Query", inner.ret)]

\* faulty variant: the decorator logging the error to the span and not returning it
TracedDBExec_DropsError(inner) ==
  [ret |-> [inner.ret EXCEPT !.err = Nil], span |-> TracedSpan("DB Exec", inner.ret)]

TracedDBExec(inner) ==
  [ret |-> inner.ret, span |-> TracedSpan("DB Exec", inner.ret)]

\* func (db *TracedDB) SetError(error) {}: the wrapped executor is returned as it was
TracedDBSetError(db, err) == db

\* --------------------------------------------------------------------- Init
Init ==
  /\ store = [DB |-> "set", debug |-> FALSE, slowlog |-> 0]
  /\ sqldb = "open"
  /\ cancelled = [c \in Contexts |-> FALSE]
  /\ txs = [t \in AllTx |-> NoTx]
  /\ hist = [t \in AllTx |-> NoHist]
  /\ last = NoOp

\* the database answers what it likes unless the connection is gone
Answers == IF sqldb = "closed" THEN {"fail"} ELSE Outcomes

Begun(t) == txs[t].tx # "none"

\* history of a DBTx: a Query/Exec succeeded on it (called); a Query/Exec failed
\* on it or SetError was given a non-nil error (doomed)
Called(h, r) == [h EXCEPT !.called = h.called \/ r.err = Nil,
                          !.doomed = h.doomed \/ r.err # Nil]

Doom(h, bad) == [h EXCEPT !.doomed = h.doomed \/ bad]

\* ------------------------------------------------------- actions: DBStore
Debug(b) ==
  /\ store' = [store EXCEPT !.debug = b]
  /\ last' = [NoOp EXCEPT !.op = "Debug", !.recv = "store"]
  /\ UNCHANGED <<sqldb, cancelled, txs, hist>>

SlowLog(d) ==
  /\ store' = [store EXCEPT !.slowlog = d]
  /\ last' = [NoOp EXCEPT !.op = "SlowLog", !.recv = "store", !.dur = d]
  /\ UNCHANGED <<sqldb, cancelled, txs, hist>>

StoreQuery(o, dur) ==
  LET r == DBStoreQuery(store, sqldb, o, dur) IN
  /\ last' = [NoOp EXCEPT !.op = "Query", !.recv = "store", !.arg = o, !.dur = dur,
                          !.ret = r.ret, !.log = r.log, !.call = r.call]
  /\ UNCHANGED <<store, sqldb, cancelled, txs, hist>>

StoreExec(o, dur) ==
  LET r == DBStoreExec(store, sqldb, o, dur) IN
  /\ last' = [NoOp EXCEPT !.op = "Exec", !.recv = "store", !.arg = o, !.dur = dur,
                          !.ret = r.ret, !.log = r.log, !.call = r.call]
  /\ UNCHANGED <<store, sqldb, cancelled, txs, hist>>

\* faulty variant: SetError with an error treated as the end of the connection
StoreSetError_Invalidates(e) ==
  /\ store' = [store EXCEPT !.DB = IF e # Nil THEN Nil ELSE @]
  /\ last' = [NoOp EXCEPT !.op = "SetError", !.recv = "store", !.arg = e]
  /\ UNCHANGED <<sqldb, cancelled, txs, hist>>

StoreSetError(e) ==
  /\ last' = [NoOp EXCEPT !.op = "SetError", !.recv = "store", !.arg = e]
  /\ UNCHANGED <<store, sqldb, cancelled, txs, hist>>

StoreClose(o) ==
  LET r == DBStoreClose(store, sqldb, o) IN
  /\ store' = r.store
  /\ sqldb' = r.sqldb
  /\ last' = [NoOp EXCEPT !.op = "Close", !.recv = "store", !.ret = r.ret]
  /\ UNCHANGED <<cancelled, txs, hist>>

BeginTx(t, ctx, o) ==
  LET r == DBStoreBeginTx(store, sqldb, o, ctx) IN
  /\ txs[t].tx \in {"none", "done"}
  /\ txs' = IF Failed(r.ret) THEN txs ELSE [txs EXCEPT ![t] = r.tx]
  /\ hist' = IF Failed(r.ret) THEN hist ELSE [hist EXCEPT ![t] = NoHist]
  /\ last' = [NoOp EXCEPT !.op = "BeginTx", !.recv = "store", !.t = t,
                          !.arg = ctx, !.ret = r.ret]
  /\ UNCHANGED <<store, sqldb, cancelled>>

\* ---------------------------------------------------------- actions: DBTx
TxQuery(t, o, dur) ==
  LET r == DBTxQuery(txs[t], sqldb, o, dur) IN
  /\ Begun(t)
  /\ txs' = [txs EXCEPT ![t] = r.tx]
  /\ hist' = [hist EXCEPT ![t] = Called(@, r.ret)]
  /\ last' = [NoOp EXCEPT !.op = "Query", !.recv = "tx", !.t = t, !.arg = o, !.dur = dur,
                          !.ret = r.ret, !.log = r.log, !.call = r.call]
  /\ UNCHANGED <<store, sqldb, cancelled>>

TxExec(t, o, dur) ==
  LET r == DBTxExec(txs[t], sqldb, o, dur) IN
  /\ Begun(t)
  /\ txs' = [txs EXCEPT ![t] = r.tx]
  /\ hist' = [hist EXCEPT ![t] = Called(@, r.ret)]
  /\ last' = [NoOp EXCEPT !.op = "Exec", !.recv = "tx", !.t = t, !.arg = o, !.dur = dur,
                          !.ret = r.ret, !.log = r.log, !.call = r.call]
  /\ UNCHANGED <<store, sqldb, cancelled>>

TxSetError(t, e) ==
  /\ Begun(t)
  /\ txs' = [txs EXCEPT ![t] = DBTxSetError(@, e)]
  /\ hist' = [hist EXCEPT ![t] = Doom(@, e # Nil)]
  /\ last' = [NoOp EXCEPT !.op = "SetError", !.recv = "tx", !.t = t, !.arg = e]
  /\ UNCHANGED <<store, sqldb, cancelled>>

TxSetContext(t, ctx) ==
  /\ Begun(t)
  /\ txs' = [txs EXCEPT ![t] = DBTxSetContext(@, ctx)]
  /\ last' = [NoOp EXCEPT !.op = "SetContext", !.recv = "tx", !.t = t, !.arg = ctx]
  /\ UNCHANGED <<store, sqldb, cancelled, hist>>

TxClose(t, o) ==
  LET r == DBTxClose(txs[t], sqldb, o) IN
  /\ Begun(t)
  /\ hist[t].issued < MaxClose
  /\ txs' = [txs EXCEPT ![t] = r.tx]
  /\ hist' = [hist EXCEPT ![t].issued = @ + 1]
  /\ last' = [NoOp EXCEPT !.op = "Close", !.recv = "tx", !.t = t, !.ret = r.ret,
                          !.term = r.term, !.out = r.out]
  /\ UNCHANGED <<store, sqldb, cancelled>>

\* ------------------------------------------------------ actions: TracedDB
\* OpenTrace(ctx, store) followed by one call on the decorator (ctx is a non-nil
\* context; whether it carries a parent span only decides the new span's parent)
TracedStoreQuery(o, dur) ==
  LET inner == DBStoreQuery(store, sqldb, o, dur)
      r == TracedDBQuery(inner) IN
  /\ last' = [NoOp EXCEPT !.op = "Query", !.recv = "store", !.traced = TRUE,
                          !.arg = o, !.dur = dur, !.ret = r.ret, !.span = r.span,
                          !.log = inner.log, !.call = inner.call]
  /\ UNCHANGED <<store, sqldb, cancelled, txs, hist>>

TracedStoreExec(o, dur) ==
  LET inner == DBStoreExec(store, sqldb, o, dur)
      r == TracedDBExec(inner) IN
  /\ last' = [NoOp EXCEPT !.op = "Exec", !.recv = "store", !.traced = TRUE,
                          !.arg = o, !.dur = dur, !.ret = r.ret, !.span = r.span,
                          !.log = inner.log, !.call = inner.call]
  /\ UNCHANGED <<store, sqldb, cancelled, txs, hist>>

\* OpenTrace(ctx, tx) followed by one call on the decorator
TracedTxQuery(t, o, dur) ==
  LET inner == DBTxQuery(txs[t], sqldb, o, dur)
      r == TracedDBQuery(inner) IN
  /\ Begun(t)
  /\ txs' = [txs EXCEPT ![t] = inner.tx]
  /\ hist' = [hist EXCEPT ![t] = Called(@, inner.ret)]
  /\ last' = [NoOp EXCEPT !.op = "Query", !.recv = "tx", !.t = t, !.traced = TRUE,
                          !.arg = o, !.dur = dur, !.ret = r.ret, !.span = r.span,
                          !.log = inner.log, !.call = inner.call]
  /\ UNCHANGED <<store, sqldb, cancelled>>

TracedTxExec(t, o, dur) ==
  LET inner == DBTxExec(txs[t], sqldb, o, dur)
      r == TracedDBExec(inner) IN
  /\ Begun(t)
  /\ txs' = [txs EXCEPT ![t] = inner.tx]
  /\ hist' = [hist EXCEPT ![t] = Called(@, inner.ret)]
  /\ last' = [NoOp EXCEPT !.op = "Exec", !.recv = "tx", !.t = t, !.traced = TRUE,
                          !.arg = o, !.dur = dur, !.ret = r.ret, !.span = r.span,
                          !.log = inner.log, !.call = inner.call]
  /\ UNCHANGED <<store, sqldb, cancelled>>

TracedStoreSetError(e) ==
  /\ store' = TracedDBSetError(store, e)
  /\ last' = [NoOp EXCEPT !.op = "SetError", !.recv = "store", !.traced = TRUE,
                          !.arg = e]
  /\ UNCHANGED <<sqldb, cancelled, txs, hist>>

TracedTxSetError(t, e) ==
  /\ Begun(t)
  /\ txs' = [txs EXCEPT ![t] = TracedDBSetError(@, e)]
  /\ last' = [NoOp EXCEPT !.op = "SetError", !.recv = "tx", !.t = t,
                          !.traced = TRUE, !.arg = e]
  /\ UNCHANGED <<store, sqldb, cancelled, hist>>

\* --------------------------------------------------- actions: environment
\* the owner of context c cancels it, or its deadline passes
CancelCtx(c) ==
  /\ ~cancelled[c]
  /\ cancelled' = [cancelled EXCEPT ![c] = TRUE]
  /\ last' = [NoOp EXCEPT !.op = "Cancel", !.recv = "ctx", !.arg = c]
  /\ UNCHANGED <<store, sqldb, txs, hist>>

\* operations on the executors and the decorator, with calls lasting dur \in D
Calls(D) ==
  \/ \E o \in Answers, dur \in D : StoreQuery(o, dur)
  \/ \E o \in Answers, dur \in D : StoreExec(o, dur)
  \/ \E t \in MainTx, o \in Answers, dur \in D : TxQuery(t, o, dur)
  \/ \E t \in MainTx, o \in Answers, dur \in D : TxExec(t, o, dur)

TracedCalls(D) ==
  \/ \E o \in Answers, dur \in D : TracedStoreQuery(o, dur)
  \/ \E o \in Answers, dur \in D : TracedStoreExec(o, dur)
  \/ \E t \in MainTx, o \in Answers, dur \in D : TracedTxQuery(t, o, dur)
  \/ \E t \in MainTx, o \in Answers, dur \in D : TracedTxExec(t, o, dur)

Settings ==
  \/ \E b \in BOOLEAN : Debug(b)
  \/ \E d \in Thresholds : SlowLog(d)

Lifecycle ==
  \/ \E e \in ErrArgs : StoreSetError(e)
  \/ \E o \in Answers : StoreClose(o)
  \/ \E t \in MainTx, c \in CtxArgs, o \in Answers : BeginTx(t, c, o)
  \/ \E t \in MainTx, e \in ErrArgs : TxSetError(t, e)
  \/ \E t \in MainTx, c \in CtxArgs : TxSetContext(t, c)
  \/ \E t \in MainTx, o \in Answers : TxClose(t, o)
  \/ \E e \in ErrArgs : TracedStoreSetError(e)
  \/ \E t \in MainTx, e \in ErrArgs : TracedTxSetError(t, e)
  \/ \E c \in Contexts : CancelCtx(c)

\* every operation, every duration
Next == Settings \/ Calls(Durations) \/ TracedCalls(Durations) \/ Lifecycle

Spec == Init /\ [][Next]_vars

\* the executors' life cycle under the default settings (debug off, threshold 0:
\* nothing is logged whatever a call lasts, so calls are taken to last 0)
NextTx == Calls({0}) \/ TracedCalls({0}) \/ Lifecycle

SpecTx == Init /\ [][NextTx]_vars

\* logging: the settings, transactions begun under them, and calls of every duration
NextLog ==
  \/ Settings
  \/ Calls(Durations)
  \/ \E t \in MainTx, o \in Answers : BeginTx(t, Nil, o)
  \/ \E t \in MainTx, o \in Answers : TxClose(t, o)
  \/ \E e \in ErrArgs : StoreSetError(e)

SpecLog == Init /\ [][NextLog]_vars

\* two DBTx handles on one DBStore: transactions begun, used and closed side by side
NextTwo ==
  \/ \E t \in AllTx, c \in CtxArgs, o \in Answers : BeginTx(t, c, o)
  \/ \E t \in AllTx, o \in Answers : TxExec(t, o, 0)
  \/ \E t \in AllTx, o \in Answers : TxClose(t, o)

SpecTwo == Init /\ [][NextTwo]_vars

\* transactions begun with context c1, whose context the caller may then replace
NextCtx ==
  \/ \E t \in MainTx, o \in Answers : BeginTx(t, "c1", o)
  \/ \E t \in MainTx, c \in CtxArgs : TxSetContext(t, c)
  \/ \E t \in MainTx, o \in Answers : TxQuery(t, o, 0)
  \/ \E t \in MainTx, o \in Answers : TxExec(t, o, 0)
  \/ \E t \in MainTx, e \in ErrArgs : TxSetError(t, e)
  \/ \E t \in MainTx, o \in Answers : TxClose(t, o)
  \/ \E c \in Contexts : CancelCtx(c)

SpecCtx == Init /\ [][NextCtx]_vars

\* ------------------------------------------------------------------ claims
TxClosed == last.op = "Close" /\ last.recv = "tx"
TxCalled == last.op \in {"Query", "Exec"} /\ last.recv = "tx"
TracedCall == last.op \in {"Query", "Exec"} /\ last.traced
LastTx == txs[last.t]
LastHist == hist[last.t]

\* C1: a DBTx whose Query/Exec calls all succeeded, to which SetError gave no
\* error, and whose attached context (if any) is not done, commits at Close.
C1_CleanCloseCommits ==
  (TxClosed /\ LastHist.issued = 1 /\ ~LastHist.doomed /\ ~CtxDone(LastTx.Ctx))
    => last.term = "commit"

C1_Witness ==
  /\ TxClosed /\ LastHist.issued = 1
  /\ LastHist.called /\ ~LastHist.doomed
  /\ LastTx.Ctx # Nil /\ ~CtxDone(LastTx.Ctx)
  /\ last.term = "commit" /\ last.ret = NoRet

\* C2: once a Query or Exec on a DBTx has failed, or SetError was given a non-nil
\* error, Close rolls back, whatever succeeded afterwards.
C2_StickyDoom ==
  (TxClosed /\ LastHist.doomed) => last.term = "rollback"

\* C3: a DBTx whose attached context is done when Close is called rolls back,
\* even if every call succeeded and no error was recorded.
C3_CancelledCloseRollsBack ==
  (TxClosed /\ CtxDone(LastTx.Ctx)) => last.term = "rollback"

C3_Witness ==
  /\ TxClosed /\ LastHist.issued = 1
  /\ LastHist.called /\ ~LastHist.doomed
  /\ CtxDone(LastTx.Ctx)
  /\ last.term = "rollback"

\* C4: SetError(e) on a TracedDB wrapping a DBTx records e on the DBTx and opens
\* no span.
C4_TracedSetErrorPassesThrough ==
  (last.op = "SetError" /\ last.traced /\ last.recv = "tx")
    => (LastTx.err = last.arg /\ last.span = NoSpan)

\* C5: a Close on a DBStore that an earlier Close has closed returns an
\* AlreadyClosedError: it neither succeeds again nor crashes.
C5_SecondCloseFails ==
  [][(store.DB = Nil /\ last'.op = "Close" /\ last'.recv = "store")
       => last'.ret = Ret(Nil, "AlreadyClosedError")]_vars

\* C6: over any sequence of operations a DBTx issues at most one commit or
\* rollback to its transaction.
C6_TerminalOnce ==
  \A t \in AllTx : hist[t].issued <= 1

\* C7: Close on a DBTx returns the outcome of the terminal call it made: with an
\* error recorded the rollback's outcome, the recorded error staying on the
\* DBTx; with none recorded the commit's outcome.
C7_CloseReturnsTerminalOutcome ==
  TxClosed =>
    /\ last.ret = Ret(Nil, last.out)
    /\ last.term = "rollback" =>
         /\ LastTx.err # Nil
         /\ LastHist.issued = 1 => last.out \in {Nil, "RollbackError"}
    /\ last.term = "commit" =>
         /\ LastTx.err = Nil
         /\ LastHist.issued = 1 => last.out \in {Nil, "CommitError"}

C7_Witness ==
  /\ TxClosed /\ LastHist.issued = 1
  /\ last.term = "rollback" /\ last.ret = NoRet
  /\ LastTx.err = "DriverError"

Count(seq, x) == Cardinality({i \in DOMAIN seq : seq[i] = x})

LastThreshold == IF last.recv = "tx" THEN LastTx.slowlog ELSE store.slowlog

\* C10: a Query/Exec emits a SLOW line exactly when its measured duration is
\* greater than the executor's threshold and that threshold is greater than zero.
C10_SlowLogIff ==
  (last.op \in {"Query", "Exec"}) =>
    (last.log.slow <=> (last.dur > LastThreshold /\ LastThreshold > 0))

C10_Witness ==
  /\ TxCalled /\ last.log.slow
  /\ last.dur = LastThreshold + 1

\* C11: a DBTx carries the debug flag and threshold its DBStore had when BeginTx
\* was called; no later operation, Debug and SlowLog on the store included,
\* changes them.
C11_SettingsSnapshot ==
  [][IF last'.op = "BeginTx" /\ ~Failed(last'.ret)
       THEN /\ txs'[last'.t].debug = store.debug
            /\ txs'[last'.t].slowlog = store.slowlog
       ELSE \A t \in AllTx : /\ txs'[t].debug = txs[t].debug
                             /\ txs'[t].slowlog = txs[t].slowlog]_vars

C11_Witness ==
  /\ last.op \in {"Debug", "SlowLog"}
  /\ txs["t1"].tx = "open"
  /\ txs["t1"].debug /\ ~store.debug
  /\ txs["t1"].slowlog = 1 /\ store.slowlog # 1

\* C12: on a DBStore that a Close has closed, Query, Exec and BeginTx each
\* return an error to the caller; none succeeds and BeginTx yields no DBTx.
C12_UseAfterCloseFails ==
  (store.DB = Nil /\ last.recv = "store" /\ last.op \in {"Query", "Exec", "BeginTx"})
    => (~last.ret.panic /\ last.ret.err # Nil /\ last.ret.val = Nil)

\* C13: SetError on a DBStore changes nothing: the handle, the debug flag, the
\* threshold, the connection and every DBTx begun from the store are as before,
\* so no later call is affected.
C13_StoreSetErrorNoOp ==
  [][(last'.op = "SetError" /\ last'.recv = "store" /\ ~last'.traced)
       => (store' = store /\ sqldb' = sqldb /\ txs' = txs /\ cancelled' = cancelled)]_vars

C13_Witness ==
  /\ last.op = "SetError" /\ last.recv = "store" /\ ~last.traced
  /\ last.arg = "AppError"
  /\ store = [DB |-> "set", debug |-> TRUE, slowlog |-> 1]
  /\ txs["t1"].tx = "open" /\ txs["t1"].err = Nil

\* C14: what a Query/Exec returns, and the error it leaves recorded on a DBTx,
\* are the same whatever the executor's debug flag and threshold are.
C14_LoggingDoesNotDecide ==
  [][(last'.op \in {"Query", "Exec"}) =>
       \A b \in BOOLEAN, d \in Thresholds :
         IF last'.recv = "tx"
           THEN LET tx0 == [txs[last'.t] EXCEPT !.debug = b, !.slowlog = d]
                    a == IF last'.op = "Query"
                           THEN DBTxQuery(tx0, sqldb, last'.arg, last'.dur)
                           ELSE DBTxExec(tx0, sqldb, last'.arg, last'.dur)
                IN /\ a.ret = last'.ret
                   /\ a.tx.err = txs'[last'.t].err
           ELSE LET s0 == [store EXCEPT !.debug = b, !.slowlog = d]
                    a == IF last'.op = "Query"
                           THEN DBStoreQuery(s0, sqldb, last'.arg, last'.dur)
                           ELSE DBStoreExec(s0, sqldb, last'.arg, last'.dur)
                IN a.ret = last'.ret]_vars

C14_Witness ==
  /\ TxCalled /\ last.op = "Query"
  /\ last.log.debug /\ last.log.slow
  /\ last.ret = Ret("rows", Nil) /\ LastTx.err = Nil

\* C15: at most one DBTx begun from the DBStore is open at a time: BeginTx yields
\* no second open transaction while an earlier one has not been closed.
C15_OneOpenTx ==
  Cardinality({t \in AllTx : txs[t].tx = "open"}) <= 1

\* C16: Close on a DBTx rolls back exactly when the error field holds an error
\* or the attached context is done, and commits otherwise; the field holds what
\* the last Query, Exec or SetError wrote, nil included, so an error recorded
\* earlier and overwritten since plays no part.
C16_LastErrorDecides ==
  [][/\ (last'.op = "Close" /\ last'.recv = "tx") =>
          last'.term = IF txs[last'.t].err # Nil \/ CtxDone(txs[last'.t].Ctx)
                         THEN "rollback" ELSE "commit"
     /\ (last'.op \in {"Query", "Exec"} /\ last'.recv = "tx") =>
          txs'[last'.t].err = last'.ret.err
     /\ (last'.op = "SetError" /\ last'.recv = "tx" /\ ~last'.traced) =>
          txs'[last'.t].err = last'.arg]_vars

C16_Witness ==
  /\ TxClosed /\ LastHist.issued = 1
  /\ LastHist.doomed /\ LastHist.called
  /\ last.term = "commit"

\* C17: Close on a DBTx whose attached context is done leaves the context's error
\* recorded, whatever was recorded before; with a context that is not done, or
\* none, Close leaves the recorded error as it was.
C17_CloseRecordsContextError ==
  [][(last'.op = "Close" /\ last'.recv = "tx") =>
       txs'[last'.t].err = IF CtxDone(txs[last'.t].Ctx)
                             THEN CtxErr(txs[last'.t].Ctx)
                             ELSE txs[last'.t].err]_vars

C17_Witness ==
  /\ TxClosed /\ LastHist.issued = 1
  /\ LastHist.doomed
  /\ LastTx.Ctx = "c2" /\ CtxDone("c2")
  /\ LastTx.err = "context.DeadlineExceeded"

ContextErrors == {CtxErr(c) : c \in Contexts}

\* C18: Query/Exec on a DBTx make the driver's context call, with the context
\* attached at that moment, exactly when that context is non-nil, and the plain
\* call otherwise; Close on a DBTx with no context attached checks no
\* cancellation: the recorded error alone decides, and stays as it was.
C18_ContextChoosesCall ==
  [][/\ (last'.op \in {"Query", "Exec"} /\ last'.recv = "tx") =>
          LET c == txs[last'.t].Ctx IN
          /\ last'.call = IF last'.op = "Query"
                            THEN (IF c # Nil THEN "QueryContext" ELSE "Query")
                            ELSE (IF c # Nil THEN "ExecContext" ELSE "Exec")
          /\ CtxDone(c) => last'.ret.err = CtxErr(c)
          /\ c = Nil => last'.ret.err \notin ContextErrors
     /\ (last'.op = "Close" /\ last'.recv = "tx" /\ txs[last'.t].Ctx = Nil) =>
          /\ last'.term = IF txs[last'.t].err # Nil THEN "rollback" ELSE "commit"
          /\ txs'[last'.t].err = txs[last'.t].err]_vars

C18_Witness ==
  /\ TxCalled /\ ~last.traced
  /\ last.call = "QueryContext"
  /\ CtxDone(LastTx.Ctx)
  /\ last.ret = Ret(Nil, CtxErr(LastTx.Ctx))

\* C19: SetContext changes the attached context of the DBTx and nothing else, and
\* Close consults the context attached when it is called: it rolls back when
\* that one is done, and with no error recorded and that one not done it
\* commits, whatever became of the context given at BeginTx.
C19_OnlyAttachedContext ==
  [][/\ last'.op = "SetContext" =>
          /\ txs' = [txs EXCEPT ![last'.t] = [@ EXCEPT !.Ctx = last'.arg]]
          /\ hist' = hist /\ store' = store /\ sqldb' = sqldb
     /\ (last'.op = "Close" /\ last'.recv = "tx") =>
          LET c == txs[last'.t].Ctx IN
          /\ CtxDone(c) => last'.term = "rollback"
          /\ (~CtxDone(c) /\ txs[last'.t].err = Nil) => last'.term = "commit"]_vars

\* a DBTx begun with c1 and moved to c2 commits although c1 is cancelled
C19_Witness ==
  /\ TxClosed /\ LastHist.issued = 1
  /\ LastHist.called /\ ~LastHist.doomed
  /\ LastTx.Ctx = "c2" /\ ~cancelled["c2"] /\ cancelled["c1"]
  /\ last.term = "commit" /\ last.ret = NoRet

StoreClosed == last.op = "Close" /\ last.recv = "store"

\* C20 as stated: a Close on a DBStore that returns the connection's close error
\* leaves the store as it was and still usable.
C20_FailedCloseLeavesUsable ==
  (StoreClosed /\ last.ret.err # Nil) => (store.DB # Nil /\ sqldb = "open")

\* C20 as amended: a Close on a DBStore that returns the connection's close error
\* leaves the store's fields as they were, the handle included, but the
\* connection is closed: Query, Exec and BeginTx then return ErrDBClosed, and a
\* further Close returns nil and drops the handle. Only a Close that returns nil
\* drops the handle.
C20_FailedCloseKeepsHandle ==
  [][/\ (last'.op = "Close" /\ last'.recv = "store") =>
          /\ last'.ret.err # Nil => (store' = store /\ store'.DB # Nil /\ sqldb' = "closed")
          /\ (store.DB # Nil /\ sqldb = "closed") => (last'.ret = NoRet /\ store'.DB = Nil)
     /\ store'.DB # store.DB =>
          (last'.op = "Close" /\ last'.recv = "store" /\ last'.ret = NoRet)
     /\ (store.DB # Nil /\ sqldb = "closed" /\ last'.recv = "store"
           /\ last'.op \in {"Query", "Exec", "BeginTx"}) =>
          last'.ret = Ret(Nil, "ErrDBClosed")]_vars

C20_Witness ==
  /\ StoreClosed /\ last.ret = Ret(Nil, "CloseError")
  /\ store.DB = "set" /\ sqldb = "closed"

====
